---- MODULE Spec2Model ----
(***************************************************************************)
(* Scale-up / scale-down reconciliation of the RKE2 control plane          *)
(* (controlplane/internal/controllers/scale.go).                           *)
(*                                                                         *)
(* The authoritative store holds Machines, infrastructure clones and       *)
(* bootstrap configs.  The controller reads Machines through a cache that  *)
(* may lag the store; one reconciliation pass is one action.               *)
(***************************************************************************)
EXTENDS Integers, Sequences, FiniteSets, TLC

(* ------------------------------ bounds -------------------------------- *)
\* names the name generator can hand out (one per provisioning attempt)
MaxIds == 3
\* configured failure domains
NumDomains == 2
\* largest desired replica count
MaxReplicas == 2
\* disturbances from outside the controller (annotate, resize, a Machine
\* reported unhealthy)
MaxEnv == 2
\* Machines in a view handed to the gate or to the selector on their own
MaxView == 3

Ids == 1..MaxIds
ViewIds == 1..MaxView
FailureDomains == 1..NumDomains

VARIABLES
    machines,    \* store: Machine name -> Machine object
    infras,      \* store: names of the infrastructure clones
    bootstraps,  \* store: names of the RKE2Config objects
    cache,       \* the controller's cached Machines (controlPlane.Machines)
    desired,     \* rcp.Spec.Replicas
    nextId,      \* names.SimpleNameGenerator: next unused name
    env,         \* disturbances so far
    last,        \* what the latest pass did and returned
    pass         \* the provisioning attempt under way, between two store calls

vars == <<machines, infras, bootstraps, cache, desired, nextId, env, last, pass>>

(* --------------------------- data model ------------------------------- *)
\* status of a condition on a Machine; "Absent": conditions.Get returns nil
ConditionValues == {"True", "False", "Unknown", "Absent"}

\* the condition kinds preflight requires of every machine
allMachineHealthConditions == {"MachineAgentHealthy"}

\* rcp.Spec.ServerConfig: the server configuration of the control plane
DefaultServerConfig == [tlsSan |-> <<>>]
ServerConfigs == {DefaultServerConfig, [tlsSan |-> <<"cp.local">>]}

\* the elements of a JSON array of strings
RECURSIVE json_Strings(_)
json_Strings(strs) ==
    IF Len(strs) = 0 THEN ""
    ELSE "\"" \o strs[1] \o "\""
            \o (IF Len(strs) > 1 THEN "," ELSE "") \o json_Strings(Tail(strs))

\* json.Marshal of a server configuration: an empty field is left out
json_Marshal(serverConfig) ==
    IF Len(serverConfig.tlsSan) = 0 THEN "{}"
    ELSE "{\"tlsSan\":[" \o json_Strings(serverConfig.tlsSan) \o "]}"

\* a Machine without a condition reported yet; serverConfiguration is the
\* value of its annotation RKE2ServerConfigurationAnnotation
NewMachine(id, fd, origin) ==
    [fd |-> fd, deleting |-> FALSE, annotated |-> FALSE,
     agentHealthy |-> "Absent", origin |-> origin,
     infraRef |-> id, bootstrapRef |-> id,
     serverConfiguration |-> json_Marshal(DefaultServerConfig)]

\* the value of `last` when no pass has just run; after a pass, `before` is
\* the store as the pass found it and `view` the cached view it was given
Idle ==
    [op |-> "none", result |-> "zero", err |-> "nil", preflight |-> "notRun",
     excluded |-> {}, outdated |-> {}, candidate |-> 0, uncached |-> -1,
     id |-> 0, fd |-> 0, serverConfig |-> DefaultServerConfig,
     ops |-> <<>>, errs |-> <<>>, before |-> <<>>, view |-> <<>>]

\* the value of `pass` when no provisioning attempt is under way. Under way,
\* pc is the call cloneConfigsAndGenerateMachine makes next, infraRef and
\* bootstrapRef are its local references (0 is nil), cleanup the errors
\* cleanupFromGeneration collected, and rec what the pass has done so far
NoPass ==
    [pc |-> "none", infraRef |-> 0, bootstrapRef |-> 0, cleanup |-> <<>>,
     rec |-> Idle]

(* ----------------------- ControlPlane (view) -------------------------- *)
\* FilterableMachineCollection.Len
Len_(view) == Cardinality(DOMAIN view)

\* FilterableMachineCollection.Filter by a set of names
Filter(view, names) == [n \in (DOMAIN view) \cap names |-> view[n]]

\* ControlPlane.HasDeletingMachine: some machine has a deletion timestamp
HasDeletingMachine(view) == \E n \in DOMAIN view : view[n].deleting

\* ControlPlane.MachineWithDeleteAnnotation: the annotated ones of a collection
MachineWithDeleteAnnotation(view) ==
    Filter(view, {n \in DOMAIN view : view[n].annotated})

\* machines of a collection in one failure domain
MachinesInFailureDomain(view, fd) ==
    Filter(view, {n \in DOMAIN view : view[n].fd = fd})

\* the failure domains holding the most machines of the collection
FailureDomainWithMostMachines(view) ==
    {fd \in FailureDomains :
        /\ Len_(MachinesInFailureDomain(view, fd)) > 0
        /\ \A g \in FailureDomains :
              Len_(MachinesInFailureDomain(view, g))
                 <= Len_(MachinesInFailureDomain(view, fd))}

\* ControlPlane.MachineInFailureDomainWithMostMachines: the machines that may
\* be picked; empty when the collection is empty (the call returns an error)
MachineInFailureDomainWithMostMachines(view) ==
    {n \in DOMAIN view : view[n].fd \in FailureDomainWithMostMachines(view)}

\* ControlPlane.NextFailureDomainForScaleUp: the least populated configured
\* domain, lowest identifier first among equals
NextFailureDomainForScaleUp(view) ==
    CHOOSE fd \in FailureDomains :
        \A g \in FailureDomains :
            \/ Len_(MachinesInFailureDomain(view, fd))
                  < Len_(MachinesInFailureDomain(view, g))
            \/ /\ Len_(MachinesInFailureDomain(view, fd))
                     = Len_(MachinesInFailureDomain(view, g))
               /\ fd <= g

(* --------------------------- PreflightGate ---------------------------- *)
\* conditions.Get(obj, condition)
conditions_Get(machine, condition) ==
    IF condition = "MachineAgentHealthy" THEN machine.agentHealthy ELSE "Absent"

\* preflightCheckCondition taking a missing condition for a healthy one
preflightCheckCondition_AbsentOk(machine, condition) ==
    LET c == conditions_Get(machine, condition)
    IN  IF c = "False" THEN "conditionFalse"
        ELSE IF c = "Unknown" THEN "conditionUnknown"
        ELSE "nil"

\* preflightCheckCondition with the test of the status inverted: a condition
\* that is true is reported, one that is false is not
preflightCheckCondition_TrueFails(machine, condition) ==
    LET c == conditions_Get(machine, condition)
    IN  IF c = "Absent" THEN "noCondition"
        ELSE IF c = "True" THEN "conditionFalse"
        ELSE IF c = "Unknown" THEN "conditionUnknown"
        ELSE "nil"

\* scale.go preflightCheckCondition: "nil" or the error it returns
preflightCheckCondition(machine, condition) ==
    LET c == conditions_Get(machine, condition)
    IN  IF c = "Absent" THEN "noCondition"
        ELSE IF c = "False" THEN "conditionFalse"
        ELSE IF c = "Unknown" THEN "conditionUnknown"
        ELSE "nil"

\* preflightChecks without the skip of the excluded machines
preflightChecks_NoExclude(view, excludeFor) ==
    IF Len_(view) = 0
    THEN [result |-> "zero", machineErrors |-> {}]
    ELSE IF HasDeletingMachine(view)
    THEN [result |-> "deleteRequeueAfter", machineErrors |-> {}]
    ELSE LET machineErrors ==
                 {e \in (DOMAIN view) \X allMachineHealthConditions :
                     preflightCheckCondition(view[e[1]], e[2]) # "nil"}
         IN  IF machineErrors # {}
             THEN [result |-> "preflightFailedRequeueAfter",
                   machineErrors |-> machineErrors]
             ELSE [result |-> "zero", machineErrors |-> {}]

\* preflightChecks looking for deleting machines among the non-excluded only
preflightChecks_ExcludeDeleting(view, excludeFor) ==
    IF Len_(view) = 0
    THEN [result |-> "zero", machineErrors |-> {}]
    ELSE IF HasDeletingMachine(Filter(view, (DOMAIN view) \ excludeFor))
    THEN [result |-> "deleteRequeueAfter", machineErrors |-> {}]
    ELSE LET machineErrors ==
                 {e \in (DOMAIN view) \X allMachineHealthConditions :
                     /\ e[1] \notin excludeFor
                     /\ preflightCheckCondition(view[e[1]], e[2]) # "nil"}
         IN  IF machineErrors # {}
             THEN [result |-> "preflightFailedRequeueAfter",
                   machineErrors |-> machineErrors]
             ELSE [result |-> "zero", machineErrors |-> {}]

\* preflightChecks evaluating health before it looks for deleting machines
preflightChecks_HealthFirst(view, excludeFor) ==
    IF Len_(view) = 0
    THEN [result |-> "zero", machineErrors |-> {}]
    ELSE LET machineErrors ==
                 {e \in (DOMAIN view) \X allMachineHealthConditions :
                     /\ e[1] \notin excludeFor
                     /\ preflightCheckCondition(view[e[1]], e[2]) # "nil"}
         IN  IF machineErrors # {}
             THEN [result |-> "preflightFailedRequeueAfter",
                   machineErrors |-> machineErrors]
             ELSE IF HasDeletingMachine(view)
             THEN [result |-> "deleteRequeueAfter", machineErrors |-> {}]
             ELSE [result |-> "zero", machineErrors |-> {}]

\* preflightChecks with the test for an empty view inverted: an empty view
\* falls through to the wait for deletions
preflightChecks_EmptyWaits(view, excludeFor) ==
    IF Len_(view) = 0 \/ HasDeletingMachine(view)
    THEN [result |-> "deleteRequeueAfter", machineErrors |-> {}]
    ELSE LET machineErrors ==
                 {e \in (DOMAIN view) \X allMachineHealthConditions :
                     /\ e[1] \notin excludeFor
                     /\ preflightCheckCondition(view[e[1]], e[2]) # "nil"}
         IN  IF machineErrors # {}
             THEN [result |-> "preflightFailedRequeueAfter",
                   machineErrors |-> machineErrors]
             ELSE [result |-> "zero", machineErrors |-> {}]

\* scale.go preflightChecks: the ctrl.Result it returns (its error is always
\* nil) and the errors it collected; excludeFor is a set of machine names
preflightChecks(view, excludeFor) ==
    IF Len_(view) = 0
    THEN [result |-> "zero", machineErrors |-> {}]
    ELSE IF HasDeletingMachine(view)
    THEN [result |-> "deleteRequeueAfter", machineErrors |-> {}]
    ELSE LET machineErrors ==
                 {e \in (DOMAIN view) \X allMachineHealthConditions :
                     /\ e[1] \notin excludeFor
                     /\ preflightCheckCondition(view[e[1]], e[2]) # "nil"}
         IN  IF machineErrors # {}
             THEN [result |-> "preflightFailedRequeueAfter",
                   machineErrors |-> machineErrors]
             ELSE [result |-> "zero", machineErrors |-> {}]

(* --------------------------- MemberSelector --------------------------- *)
\* the switch of selectMachineForScaleDown with the outdated machines tried
\* before the annotated ones
selectMachinesForScaleDown_OutdatedFirst(view, outdatedMachines) ==
    IF Len_(MachineWithDeleteAnnotation(outdatedMachines)) > 0
    THEN MachineWithDeleteAnnotation(outdatedMachines)
    ELSE IF Len_(outdatedMachines) > 0
    THEN outdatedMachines
    ELSE IF Len_(MachineWithDeleteAnnotation(view)) > 0
    THEN MachineWithDeleteAnnotation(view)
    ELSE view

\* scale.go selectMachineForScaleDown: the collection the switch settles on
selectMachinesForScaleDown(view, outdatedMachines) ==
    IF Len_(MachineWithDeleteAnnotation(outdatedMachines)) > 0
    THEN MachineWithDeleteAnnotation(outdatedMachines)
    ELSE IF Len_(MachineWithDeleteAnnotation(view)) > 0
    THEN MachineWithDeleteAnnotation(view)
    ELSE IF Len_(outdatedMachines) > 0
    THEN outdatedMachines
    ELSE view

\* scale.go selectMachineForScaleDown: the machines it may return
selectMachineForScaleDown(view, outdatedMachines) ==
    MachineInFailureDomainWithMostMachines(
        selectMachinesForScaleDown(view, outdatedMachines))

(* ------------------------------ store --------------------------------- *)
EmptyView == [n \in {} |-> Idle]

Put(view, n, m) == [k \in (DOMAIN view) \cup {n} |-> IF k = n THEN m ELSE view[k]]

Remove(view, n) == [k \in (DOMAIN view) \ {n} |-> view[k]]

\* the store as a call of the Provisioner finds it, with the log of the calls
\* the pass made before
Store(p) == [machines |-> machines, infras |-> infras, bootstraps |-> bootstraps,
             ops |-> p.rec.ops]

\* the store as a pass finds it
Before == [machines |-> machines, infras |-> infras, bootstraps |-> bootstraps]

Logged(st, op, kind, name, outcome) ==
    [st EXCEPT !.ops = Append(@, [op |-> op, kind |-> kind, name |-> name,
                                  outcome |-> outcome])]

\* what the store answers: a create or clone succeeds or fails; a delete
\* succeeds, finds nothing (the object went away meanwhile) or fails
CreateOutcomes == {"ok", "error"}
DeleteOutcomes == {"ok", "notfound", "error"}

(* ---------------------------- Provisioner ----------------------------- *)
\* external.CloneTemplate as called at scale.go:254: [st, ref, err]; ref 0 is nil
CloneTemplate(st, id, outcome) ==
    IF outcome = "ok"
    THEN [st  |-> [Logged(st, "clone", "infra", id, outcome)
                      EXCEPT !.infras = @ \cup {id}],
          ref |-> id, err |-> FALSE]
    ELSE [st |-> Logged(st, "clone", "infra", id, outcome), ref |-> 0, err |-> TRUE]

\* scale.go generateRKE2Config: [st, ref, err]
generateRKE2Config(st, id, outcome) ==
    IF outcome = "ok"
    THEN [st  |-> [Logged(st, "create", "bootstrap", id, outcome)
                      EXCEPT !.bootstraps = @ \cup {id}],
          ref |-> id, err |-> FALSE]
    ELSE [st |-> Logged(st, "create", "bootstrap", id, outcome), ref |-> 0, err |-> TRUE]

\* generateMachine leaving the failure domain of the Machine unset (0)
generateMachine_NoFailureDomain(st, id, infraRef, bootstrapRef, fd, origin, serverConfig, outcome) ==
    IF outcome = "ok"
    THEN [st  |-> [Logged(st, "create", "machine", id, outcome)
                      EXCEPT !.machines =
                          Put(@, id, [NewMachine(id, 0, origin) EXCEPT
                                         !.infraRef = infraRef,
                                         !.bootstrapRef = bootstrapRef,
                                         !.serverConfiguration =
                                             json_Marshal(serverConfig)])],
          err |-> FALSE]
    ELSE [st |-> Logged(st, "create", "machine", id, outcome), err |-> TRUE]

\* generateMachine creating the Machine without the annotation of the server
\* configuration
generateMachine_NoAnnotation(st, id, infraRef, bootstrapRef, fd, origin, serverConfig, outcome) ==
    IF outcome = "ok"
    THEN [st  |-> [Logged(st, "create", "machine", id, outcome)
                      EXCEPT !.machines =
                          Put(@, id, [NewMachine(id, fd, origin) EXCEPT
                                         !.infraRef = infraRef,
                                         !.bootstrapRef = bootstrapRef,
                                         !.serverConfiguration = ""])],
          err |-> FALSE]
    ELSE [st |-> Logged(st, "create", "machine", id, outcome), err |-> TRUE]

\* scale.go generateMachine: [st, err]
generateMachine(st, id, infraRef, bootstrapRef, fd, origin, serverConfig, outcome) ==
    IF outcome = "ok"
    THEN [st  |-> [Logged(st, "create", "machine", id, outcome)
                      EXCEPT !.machines =
                          Put(@, id, [NewMachine(id, fd, origin) EXCEPT
                                         !.infraRef = infraRef,
                                         !.bootstrapRef = bootstrapRef,
                                         !.serverConfiguration =
                                             json_Marshal(serverConfig)])],
          err |-> FALSE]
    ELSE [st |-> Logged(st, "create", "machine", id, outcome), err |-> TRUE]

\* r.Client.Delete of one generated object with a not-found answer taken for
\* a failure
DeleteRef_NotFoundFails(st, kind, ref, outcome) ==
    LET logged == Logged(st, "delete", kind, ref, outcome)
    IN  IF outcome = "error"
        THEN [st |-> logged, err |-> TRUE]
        ELSE [st  |-> IF kind = "infra"
                      THEN [logged EXCEPT !.infras = @ \ {ref}]
                      ELSE [logged EXCEPT !.bootstraps = @ \ {ref}],
              err |-> outcome = "notfound"]

\* r.Client.Delete of one generated object (scale.go:303): [st, err]; a
\* not-found answer is not an error
DeleteRef(st, kind, ref, outcome) ==
    LET logged == Logged(st, "delete", kind, ref, outcome)
    IN  IF outcome = "error"
        THEN [st |-> logged, err |-> TRUE]
        ELSE [st  |-> IF kind = "infra"
                      THEN [logged EXCEPT !.infras = @ \ {ref}]
                      ELSE [logged EXCEPT !.bootstraps = @ \ {ref}],
              err |-> FALSE]

\* the delete cleanupFromGeneration starts with: it skips a nil reference
cleanupFirst(p) ==
    IF p.infraRef # 0 THEN "deleteInfra"
    ELSE IF p.bootstrapRef # 0 THEN "deleteBootstrap"
    ELSE "cleaned"

\* cleanupFromGeneration deleting the first reference only
cleanupFromGeneration_FirstOnly(st, p, outcome) ==
    LET d == DeleteRef(st, "infra", p.infraRef, outcome)
    IN  [st |-> d.st,
         p  |-> [p EXCEPT
                   !.pc = "cleaned",
                   !.cleanup = IF d.err
                               THEN Append(@, "failed to cleanup generated resources after error")
                               ELSE @]]

\* cleanupFromGeneration giving up at the first delete that fails
cleanupFromGeneration_StopOnError(st, p, outcome) ==
    LET kind == IF p.pc = "deleteInfra" THEN "infra" ELSE "bootstrap"
        ref  == IF p.pc = "deleteInfra" THEN p.infraRef ELSE p.bootstrapRef
        d    == DeleteRef(st, kind, ref, outcome)
    IN  [st |-> d.st,
         p  |-> [p EXCEPT
                   !.pc = IF p.pc = "deleteInfra" /\ p.bootstrapRef # 0 /\ ~d.err
                          THEN "deleteBootstrap" ELSE "cleaned",
                   !.cleanup = IF d.err
                               THEN Append(@, "failed to cleanup generated resources after error")
                               ELSE @]]

\* scale.go cleanupFromGeneration(infraRef, bootstrapRef), one turn of its
\* loop: the delete of the reference p.pc names, then on to the next
\* reference that is not nil; [st, p]
cleanupFromGeneration(st, p, outcome) ==
    LET kind == IF p.pc = "deleteInfra" THEN "infra" ELSE "bootstrap"
        ref  == IF p.pc = "deleteInfra" THEN p.infraRef ELSE p.bootstrapRef
        d    == DeleteRef(st, kind, ref, outcome)
    IN  [st |-> d.st,
         p  |-> [p EXCEPT
                   !.pc = IF p.pc = "deleteInfra" /\ p.bootstrapRef # 0
                          THEN "deleteBootstrap" ELSE "cleaned",
                   !.cleanup = IF d.err
                               THEN Append(@, "failed to cleanup generated resources after error")
                               ELSE @]]

\* cloneConfigsAndGenerateMachine creating the Machine before the bootstrap
\* config
cloneConfigsAndGenerateMachine_MachineFirst(st, p, outcome) ==
    IF p.pc = "CloneTemplate"
    THEN LET c == CloneTemplate(st, p.rec.id, outcome)
         IN  [st |-> c.st,
              p  |-> IF c.err
                     THEN [p EXCEPT !.pc = "return",
                                    !.rec.errs = <<"failed to clone infrastructure template">>]
                     ELSE [p EXCEPT !.pc = "generateMachine", !.infraRef = c.ref]]
    ELSE IF p.pc = "generateMachine"
    THEN LET m == generateMachine(st, p.rec.id, p.infraRef, p.rec.id,
                                  p.rec.fd, p.rec.op, p.rec.serverConfig, outcome)
         IN  [st |-> m.st,
              p  |-> IF m.err
                     THEN [p EXCEPT !.pc = cleanupFirst(p),
                                    !.rec.errs = Append(@, "failed to create Machine")]
                     ELSE [p EXCEPT !.pc = "generateRKE2Config"]]
    ELSE IF p.pc = "generateRKE2Config"
    THEN LET b == generateRKE2Config(st, p.rec.id, outcome)
             q == [p EXCEPT !.bootstrapRef = b.ref]
         IN  [st |-> b.st,
              p  |-> IF b.err
                     THEN [q EXCEPT !.pc = cleanupFirst(q),
                                    !.rec.errs = Append(@, "failed to generate bootstrap config")]
                     ELSE [q EXCEPT !.pc = "return"]]
    ELSE LET cl == cleanupFromGeneration(st, p, outcome)
         IN  IF cl.p.pc = "cleaned"
             THEN [st |-> cl.st,
                   p  |-> [cl.p EXCEPT
                             !.pc = "return",
                             !.rec.errs = IF Len(cl.p.cleanup) > 0
                                          THEN Append(@, "failed to cleanup generated resources")
                                          ELSE @]]
             ELSE cl

\* cloneConfigsAndGenerateMachine returning as soon as the bootstrap config
\* cannot be created, without the cleanup
cloneConfigsAndGenerateMachine_EarlyReturn(st, p, outcome) ==
    IF p.pc = "CloneTemplate"
    THEN LET c == CloneTemplate(st, p.rec.id, outcome)
         IN  [st |-> c.st,
              p  |-> IF c.err
                     THEN [p EXCEPT !.pc = "return",
                                    !.rec.errs = <<"failed to clone infrastructure template">>]
                     ELSE [p EXCEPT !.pc = "generateRKE2Config", !.infraRef = c.ref]]
    ELSE IF p.pc = "generateRKE2Config"
    THEN LET b == generateRKE2Config(st, p.rec.id, outcome)
             e == IF b.err THEN Append(p.rec.errs, "failed to generate bootstrap config")
                  ELSE p.rec.errs
             q == [p EXCEPT !.bootstrapRef = b.ref, !.rec.errs = e]
         IN  [st |-> b.st,
              p  |-> [q EXCEPT !.pc = IF Len(e) = 0 THEN "generateMachine"
                                      ELSE "return"]]
    ELSE IF p.pc = "generateMachine"
    THEN LET m == generateMachine(st, p.rec.id, p.infraRef, p.bootstrapRef,
                                  p.rec.fd, p.rec.op, p.rec.serverConfig, outcome)
         IN  [st |-> m.st,
              p  |-> IF m.err
                     THEN [p EXCEPT !.pc = cleanupFirst(p),
                                    !.rec.errs = Append(@, "failed to create Machine")]
                     ELSE [p EXCEPT !.pc = "return"]]
    ELSE LET cl == cleanupFromGeneration(st, p, outcome)
         IN  IF cl.p.pc = "cleaned"
             THEN [st |-> cl.st,
                   p  |-> [cl.p EXCEPT
                             !.pc = "return",
                             !.rec.errs = IF Len(cl.p.cleanup) > 0
                                          THEN Append(@, "failed to cleanup generated resources")
                                          ELSE @]]
             ELSE cl

\* cloneConfigsAndGenerateMachine collecting the failure of the clone like
\* the later ones instead of returning at once
cloneConfigsAndGenerateMachine_NoEarlyReturn(st, p, outcome) ==
    IF p.pc = "CloneTemplate"
    THEN LET c == CloneTemplate(st, p.rec.id, outcome)
         IN  [st |-> c.st,
              p  |-> IF c.err
                     THEN [p EXCEPT !.pc = "generateRKE2Config",
                                    !.rec.errs = <<"failed to clone infrastructure template">>]
                     ELSE [p EXCEPT !.pc = "generateRKE2Config", !.infraRef = c.ref]]
    ELSE IF p.pc = "generateRKE2Config"
    THEN LET b == generateRKE2Config(st, p.rec.id, outcome)
             e == IF b.err THEN Append(p.rec.errs, "failed to generate bootstrap config")
                  ELSE p.rec.errs
             q == [p EXCEPT !.bootstrapRef = b.ref, !.rec.errs = e]
         IN  [st |-> b.st,
              p  |-> [q EXCEPT !.pc = IF Len(e) = 0 THEN "generateMachine"
                                      ELSE cleanupFirst(q)]]
    ELSE IF p.pc = "generateMachine"
    THEN LET m == generateMachine(st, p.rec.id, p.infraRef, p.bootstrapRef,
                                  p.rec.fd, p.rec.op, p.rec.serverConfig, outcome)
         IN  [st |-> m.st,
              p  |-> IF m.err
                     THEN [p EXCEPT !.pc = cleanupFirst(p),
                                    !.rec.errs = Append(@, "failed to create Machine")]
                     ELSE [p EXCEPT !.pc = "return"]]
    ELSE LET cl == cleanupFromGeneration(st, p, outcome)
         IN  IF cl.p.pc = "cleaned"
             THEN [st |-> cl.st,
                   p  |-> [cl.p EXCEPT
                             !.pc = "return",
                             !.rec.errs = IF Len(cl.p.cleanup) > 0
                                          THEN Append(@, "failed to cleanup generated resources")
                                          ELSE @]]
             ELSE cl

\* scale.go cloneConfigsAndGenerateMachine, one store call of it: the call
\* p.pc names on the store st with the answer `outcome`, then on to the next
\* call, or to "return" with p.rec.errs the errors to aggregate (none is a nil
\* error); [st, p]
cloneConfigsAndGenerateMachine(st, p, outcome) ==
    IF p.pc = "CloneTemplate"
    THEN LET c == CloneTemplate(st, p.rec.id, outcome)
         IN  [st |-> c.st,
              p  |-> IF c.err
                     THEN [p EXCEPT !.pc = "return",
                                    !.rec.errs = <<"failed to clone infrastructure template">>]
                     ELSE [p EXCEPT !.pc = "generateRKE2Config", !.infraRef = c.ref]]
    ELSE IF p.pc = "generateRKE2Config"
    THEN LET b == generateRKE2Config(st, p.rec.id, outcome)
             e == IF b.err THEN Append(p.rec.errs, "failed to generate bootstrap config")
                  ELSE p.rec.errs
             q == [p EXCEPT !.bootstrapRef = b.ref, !.rec.errs = e]
         IN  [st |-> b.st,
              p  |-> [q EXCEPT !.pc = IF Len(e) = 0 THEN "generateMachine"
                                      ELSE cleanupFirst(q)]]
    ELSE IF p.pc = "generateMachine"
    THEN LET m == generateMachine(st, p.rec.id, p.infraRef, p.bootstrapRef,
                                  p.rec.fd, p.rec.op, p.rec.serverConfig, outcome)
         IN  [st |-> m.st,
              p  |-> IF m.err
                     THEN [p EXCEPT !.pc = cleanupFirst(p),
                                    !.rec.errs = Append(@, "failed to create Machine")]
                     ELSE [p EXCEPT !.pc = "return"]]
    ELSE LET cl == cleanupFromGeneration(st, p, outcome)
         IN  IF cl.p.pc = "cleaned"
             THEN [st |-> cl.st,
                   p  |-> [cl.p EXCEPT
                             !.pc = "return",
                             !.rec.errs = IF Len(cl.p.cleanup) > 0
                                          THEN Append(@, "failed to cleanup generated resources")
                                          ELSE @]]
             ELSE cl

\* what the store can answer to the call p.pc names
CallOutcomes(p) ==
    IF p.pc \in {"deleteInfra", "deleteBootstrap"} THEN DeleteOutcomes
    ELSE CreateOutcomes

\* the store after a call of a provisioning attempt
Commit(st) ==
    /\ machines' = st.machines
    /\ infras' = st.infras
    /\ bootstraps' = st.bootstraps

(* ---------------------------- ScaleEngine ----------------------------- *)
\* provisionAndReturn asking for a requeue whether the attempt failed or not
provisionAndReturn_AlwaysRequeue(p) ==
    \E outcome \in CallOutcomes(p) :
        LET r == cloneConfigsAndGenerateMachine(Store(p), p, outcome)
            q == [r.p EXCEPT !.rec.ops = r.st.ops]
        IN  /\ Commit(r.st)
            /\ IF q.pc = "return"
               THEN /\ last' = [q.rec EXCEPT
                                  !.err = IF Len(q.rec.errs) > 0 THEN "provision"
                                          ELSE "nil",
                                  !.result = "requeue"]
                    /\ pass' = NoPass
               ELSE /\ last' = Idle
                    /\ pass' = q
            /\ UNCHANGED <<cache, desired, env>>

\* the attempt of a pass that got past its checks: the name, the failure
\* domain picked on the cached view, the server configuration of the control
\* plane as the pass was given it; no call made yet
newAttempt(op, uncached, preflight, serverConfig) ==
    [NoPass EXCEPT
       !.pc = "CloneTemplate",
       !.rec = [Idle EXCEPT
                  !.op = op, !.uncached = uncached, !.preflight = preflight,
                  !.before = Before, !.view = cache,
                  !.id = nextId, !.fd = NextFailureDomainForScaleUp(cache),
                  !.serverConfig = serverConfig]]

\* the tail shared by initializeControlPlane and scaleUpControlPlane, one
\* store call at a time: attempt p makes its next call; after the last one
\* the pass returns, ctrl.Result{} with the error or Requeue: true without
provisionAndReturn(p) ==
    \E outcome \in CallOutcomes(p) :
        LET r == cloneConfigsAndGenerateMachine(Store(p), p, outcome)
            q == [r.p EXCEPT !.rec.ops = r.st.ops]
        IN  /\ Commit(r.st)
            /\ IF q.pc = "return"
               THEN /\ last' = [q.rec EXCEPT
                                  !.err = IF Len(q.rec.errs) > 0 THEN "provision"
                                          ELSE "nil",
                                  !.result = IF Len(q.rec.errs) > 0 THEN "zero" ELSE "requeue"]
                    /\ pass' = NoPass
               ELSE /\ last' = Idle
                    /\ pass' = q
            /\ UNCHANGED <<cache, desired, env>>

\* a pass that returns before it touches the store
returnOnly(outcome) ==
    /\ last' = [outcome EXCEPT !.before = Before, !.view = cache]
    /\ UNCHANGED <<machines, infras, bootstraps, cache, desired, nextId, env, pass>>

\* initializeControlPlane without the test of the uncached read's count
initializeControlPlane_NoGuard ==
    \E read \in CreateOutcomes :
        IF read = "error"
        THEN returnOnly([Idle EXCEPT !.op = "initialize", !.err = "uncachedReadFailed"])
        ELSE /\ nextId <= MaxIds
             /\ \E serverConfig \in ServerConfigs :
                   pass' = newAttempt("initialize", Len_(machines), "notRun", serverConfig)
             /\ nextId' = nextId + 1
             /\ last' = Idle
             /\ UNCHANGED <<machines, infras, bootstraps, cache, desired, env>>

\* scale.go initializeControlPlane up to its first call, the uncached read of
\* the owned Machines (scale.go:50); the attempt it starts makes its calls in
\* the steps that follow
initializeControlPlane ==
    \E read \in CreateOutcomes :
        IF read = "error"
        THEN returnOnly([Idle EXCEPT !.op = "initialize", !.err = "uncachedReadFailed"])
        ELSE IF Len_(machines) > 0
        THEN returnOnly([Idle EXCEPT !.op = "initialize", !.err = "alreadyInitialized",
                                     !.uncached = Len_(machines)])
        ELSE /\ nextId <= MaxIds
             /\ \E serverConfig \in ServerConfigs :
                   pass' = newAttempt("initialize", Len_(machines), "notRun", serverConfig)
             /\ nextId' = nextId + 1
             /\ last' = Idle
             /\ UNCHANGED <<machines, infras, bootstraps, cache, desired, env>>

\* scaleUpControlPlane going on to provision whatever the gate answered
scaleUpControlPlane_NoGate ==
    /\ nextId <= MaxIds
    /\ \E serverConfig \in ServerConfigs :
          provisionAndReturn(newAttempt("scaleUp", -1,
                                        preflightChecks(cache, {}).result, serverConfig))
    /\ nextId' = nextId + 1

\* scale.go scaleUpControlPlane up to its first store call: the gate on the
\* cached view, which calls nothing, then CloneTemplate (scale.go:254); the
\* attempt makes its other calls in the steps that follow
scaleUpControlPlane ==
    LET pf == preflightChecks(cache, {})
    IN  IF pf.result # "zero"
        THEN returnOnly([Idle EXCEPT !.op = "scaleUp", !.preflight = pf.result,
                                     !.result = pf.result])
        ELSE /\ nextId <= MaxIds
             /\ \E serverConfig \in ServerConfigs :
                   provisionAndReturn(newAttempt("scaleUp", -1, pf.result, serverConfig))
             /\ nextId' = nextId + 1

\* what r.Client.Delete of a Machine can answer in the current store
MachineDeleteOutcomes(name) ==
    IF name \in DOMAIN machines THEN {"ok", "error"} ELSE {"notfound", "error"}

\* the test of scale.go:144 taking every answer but success for a failure
deleteFailed_NotFoundFails(outcome) == outcome # "ok"

\* scale.go:144: err != nil && !apierrors.IsNotFound(err)
deleteFailed(outcome) == outcome # "ok" /\ outcome # "notfound"

\* scale-down deleting the infrastructure clone and the bootstrap config of
\* the candidate along with it
scaleDownSelected_DeletesChildren(machineToDelete) ==
    LET pf == preflightChecks(cache, {machineToDelete})
    IN  IF pf.result # "zero"
        THEN returnOnly([Idle EXCEPT
                           !.op = "scaleDown",
                           !.candidate = machineToDelete,
                           !.excluded = {machineToDelete},
                           !.preflight = pf.result, !.result = pf.result])
        ELSE \E outcome \in MachineDeleteOutcomes(machineToDelete) :
             /\ machines' = IF outcome = "ok"
                            THEN [machines EXCEPT ![machineToDelete].deleting = TRUE]
                            ELSE machines
             /\ last' = [Idle EXCEPT
                           !.op = "scaleDown",
                           !.candidate = machineToDelete,
                           !.excluded = {machineToDelete},
                           !.preflight = pf.result,
                           !.before = Before, !.view = cache,
                           !.ops = <<[op |-> "delete", kind |-> "machine",
                                      name |-> machineToDelete,
                                      outcome |-> outcome]>>,
                           !.err = IF deleteFailed(outcome) THEN "deleteFailed" ELSE "nil",
                           !.result = IF deleteFailed(outcome) THEN "zero" ELSE "requeue"]
             /\ infras' = IF outcome = "ok"
                          THEN infras \ {machines[machineToDelete].infraRef}
                          ELSE infras
             /\ bootstraps' = IF outcome = "ok"
                              THEN bootstraps \ {machines[machineToDelete].bootstrapRef}
                              ELSE bootstraps
             /\ UNCHANGED <<cache, desired, nextId, env, pass>>

\* scale.go scaleDownControlPlane from the gate on (lines 110-152), for the
\* Machine the selector returned
scaleDownSelected(machineToDelete) ==
    LET pf == preflightChecks(cache, {machineToDelete})
    IN  IF pf.result # "zero"
        THEN returnOnly([Idle EXCEPT
                           !.op = "scaleDown",
                           !.candidate = machineToDelete,
                           !.excluded = {machineToDelete},
                           !.preflight = pf.result, !.result = pf.result])
        ELSE \E outcome \in MachineDeleteOutcomes(machineToDelete) :
             /\ machines' = IF outcome = "ok"
                            THEN [machines EXCEPT ![machineToDelete].deleting = TRUE]
                            ELSE machines
             /\ last' = [Idle EXCEPT
                           !.op = "scaleDown",
                           !.candidate = machineToDelete,
                           !.excluded = {machineToDelete},
                           !.preflight = pf.result,
                           !.before = Before, !.view = cache,
                           !.ops = <<[op |-> "delete", kind |-> "machine",
                                      name |-> machineToDelete,
                                      outcome |-> outcome]>>,
                           !.err = IF deleteFailed(outcome) THEN "deleteFailed" ELSE "nil",
                           !.result = IF deleteFailed(outcome) THEN "zero" ELSE "requeue"]
             /\ UNCHANGED <<infras, bootstraps, cache, desired, nextId, env, pass>>

\* scaleDownControlPlane going on to the gate when the selector found no
\* Machine: the gate looks at the view with an absent candidate (0), and the
\* test of scale.go:122 reports the failure afterwards
scaleDownControlPlane_NoSelectCheck ==
    \E outdatedNames \in SUBSET (DOMAIN cache) :
        LET outdatedMachines == Filter(cache, outdatedNames)
            selected == selectMachineForScaleDown(cache, outdatedMachines)
        IN  IF selected = {}
            THEN LET pf == preflightChecks(cache, {0})
                 IN  returnOnly([Idle EXCEPT
                                   !.op = "scaleDown", !.excluded = {0},
                                   !.preflight = pf.result, !.result = pf.result,
                                   !.err = IF pf.result = "zero"
                                           THEN "pickFailed" ELSE "nil"])
            ELSE \E machineToDelete \in selected : scaleDownSelected(machineToDelete)

\* scale.go scaleDownControlPlane
scaleDownControlPlane ==
    \E outdatedNames \in SUBSET (DOMAIN cache) :
        LET outdatedMachines == Filter(cache, outdatedNames)
            selected == selectMachineForScaleDown(cache, outdatedMachines)
        IN  IF selected = {}
            THEN returnOnly([Idle EXCEPT !.op = "scaleDown", !.err = "selectFailed"])
            ELSE \E machineToDelete \in selected : scaleDownSelected(machineToDelete)

\* an attempt under way makes its next store call
nextCall ==
    /\ pass.pc # "none"
    /\ provisionAndReturn(pass)
    /\ UNCHANGED nextId

\* one step of the worker: with no attempt under way, the caller's choice of
\* operation for a new pass, from the cached view; otherwise the next call of
\* the attempt
Reconcile ==
    \/ /\ pass.pc = "none"
       /\ Len_(cache) = 0
       /\ desired > 0
       /\ initializeControlPlane
    \/ /\ pass.pc = "none"
       /\ Len_(cache) > 0
       /\ Len_(cache) < desired
       /\ scaleUpControlPlane
    \/ /\ pass.pc = "none"
       /\ Len_(cache) > desired
       /\ scaleDownControlPlane
    \/ nextCall

(* ---------------------------- environment ----------------------------- *)
\* the cache catches up with the store on one Machine
CacheSync ==
    \E n \in Ids :
        /\ \/ n \in DOMAIN machines /\ n \notin DOMAIN cache
           \/ n \notin DOMAIN machines /\ n \in DOMAIN cache
           \/ n \in DOMAIN machines /\ n \in DOMAIN cache /\ cache[n] # machines[n]
        /\ cache' = IF n \in DOMAIN machines THEN Put(cache, n, machines[n])
                    ELSE Remove(cache, n)
        /\ last' = Idle
        /\ UNCHANGED <<machines, infras, bootstraps, desired, nextId, env, pass>>

\* the health reporter sets the agent condition of a Machine
ReportHealth ==
    \E n \in DOMAIN machines, h \in {"True", "False", "Unknown"} :
        /\ machines[n].agentHealthy # h
        /\ (h # "True" => env < MaxEnv)
        /\ machines' = [machines EXCEPT ![n].agentHealthy = h]
        /\ env' = IF h # "True" THEN env + 1 ELSE env
        /\ last' = Idle
        /\ UNCHANGED <<infras, bootstraps, cache, desired, nextId, pass>>

\* the operator marks a Machine with the delete annotation
Annotate ==
    \E n \in DOMAIN machines :
        /\ env < MaxEnv
        /\ ~machines[n].annotated
        /\ machines' = [machines EXCEPT ![n].annotated = TRUE]
        /\ env' = env + 1
        /\ last' = Idle
        /\ UNCHANGED <<infras, bootstraps, cache, desired, nextId, pass>>

\* the operator changes the desired replica count
Resize ==
    \E d \in 1..MaxReplicas :
        /\ env < MaxEnv
        /\ d # desired
        /\ desired' = d
        /\ env' = env + 1
        /\ last' = Idle
        /\ UNCHANGED <<machines, infras, bootstraps, cache, nextId, pass>>

\* the Machine controller finishes the deletion of a Machine and of the
\* objects it references
MachineDeleted ==
    \E n \in DOMAIN machines :
        /\ machines[n].deleting
        /\ machines' = Remove(machines, n)
        /\ infras' = infras \ {machines[n].infraRef}
        /\ bootstraps' = bootstraps \ {machines[n].bootstrapRef}
        /\ last' = Idle
        /\ UNCHANGED <<cache, desired, nextId, env, pass>>

Init ==
    /\ machines = EmptyView
    /\ infras = {}
    /\ bootstraps = {}
    /\ cache = EmptyView
    /\ desired = 1
    /\ nextId = 1
    /\ env = 0
    /\ last = Idle
    /\ pass = NoPass

Next ==
    \/ Reconcile
    \/ CacheSync
    \/ ReportHealth
    \/ Annotate
    \/ Resize
    \/ MachineDeleted

Spec == Init /\ [][Next]_vars

(* ------------- the gate and the selector on arbitrary views ------------ *)
\* every view of at most MaxView Machines whose objects are drawn from `objs`
ViewsOf(objs) ==
    UNION {{[n \in names |-> [f[n] EXCEPT !.infraRef = n, !.bootstrapRef = n]] :
               f \in [names -> objs]} : names \in SUBSET ViewIds}

\* Machines as the gate tells them apart: deletion timestamp and condition
GateMachines ==
    {[NewMachine(0, 1, "scaleUp") EXCEPT !.deleting = d, !.agentHealthy = h] :
        d \in BOOLEAN, h \in ConditionValues}

\* Machines as the selector tells them apart: failure domain and annotation
SelectorMachines ==
    {[NewMachine(0, fd, "scaleUp") EXCEPT !.annotated = a, !.agentHealthy = "True"] :
        fd \in FailureDomains, a \in BOOLEAN}

\* a store and a cache that agree on the Machines of one view
InitView(views) ==
    /\ cache \in views
    /\ machines = cache
    /\ infras = DOMAIN cache
    /\ bootstraps = DOMAIN cache
    /\ desired = 1
    /\ nextId = MaxView + 1
    /\ env = 0
    /\ last = Idle
    /\ pass = NoPass

\* preflightChecks called with some exclusion set
preflightApply ==
    \E excludeFor \in SUBSET ViewIds :
        LET pf == preflightChecks(cache, excludeFor)
        IN  returnOnly([Idle EXCEPT !.op = "preflight", !.excluded = excludeFor,
                                    !.preflight = pf.result, !.result = pf.result])

PreflightInit == InitView(ViewsOf(GateMachines))

PreflightNext == preflightApply

PreflightSpec == PreflightInit /\ [][PreflightNext]_vars

\* selectMachineForScaleDown called with some outdated set
selectApply ==
    \E outdatedNames \in SUBSET (DOMAIN cache) :
        LET selected == selectMachineForScaleDown(cache, Filter(cache, outdatedNames))
        IN  IF selected = {}
            THEN returnOnly([Idle EXCEPT !.op = "select", !.outdated = outdatedNames,
                                         !.err = "selectFailed"])
            ELSE \E machineToDelete \in selected :
                    returnOnly([Idle EXCEPT !.op = "select", !.outdated = outdatedNames,
                                            !.candidate = machineToDelete])

SelectInit == InitView(ViewsOf(SelectorMachines))

SelectNext == selectApply

SelectSpec == SelectInit /\ [][SelectNext]_vars

\* Initialize called on an empty cached view, whatever the store holds
InitializeInit ==
    /\ machines \in ViewsOf(GateMachines)
    /\ infras = DOMAIN machines
    /\ bootstraps = DOMAIN machines
    /\ cache = EmptyView
    /\ desired = 1
    /\ nextId = 1 + Cardinality({n \in ViewIds : \E k \in DOMAIN machines : n <= k})
    /\ env = 0
    /\ last = Idle
    /\ pass = NoPass

\* the operator or the agents act while the attempt is under way
Meanwhile ==
    /\ pass.pc # "none"
    /\ (CacheSync \/ ReportHealth \/ Annotate \/ Resize \/ MachineDeleted)

InitializeNext ==
    \/ pass.pc = "none" /\ last.op = "none" /\ initializeControlPlane
    \/ nextCall
    \/ Meanwhile

InitializeSpec == InitializeInit /\ [][InitializeNext]_vars

\* Machines as a scale-down pass tells them apart once the candidate is
\* chosen: deletion timestamp, and the condition reported or not
ScaleDownMachines ==
    {[NewMachine(0, 1, "scaleUp") EXCEPT !.deleting = d, !.agentHealthy = h] :
        d \in BOOLEAN, h \in {"True", "Absent"}}

\* scale-down called on any cached view, the empty one included, while the
\* store holds any Machines: some of the cached ones are gone already, others
\* are not cached yet
ScaleDownInit ==
    /\ \E all \in ViewsOf(ScaleDownMachines) :
          /\ cache \in {Filter(all, names) : names \in SUBSET (DOMAIN all)}
          /\ machines \in {Filter(all, names) : names \in SUBSET (DOMAIN all)}
    /\ infras = DOMAIN machines
    /\ bootstraps = DOMAIN machines
    /\ desired = 1
    /\ nextId = MaxView + 1
    /\ env = 0
    /\ last = Idle
    /\ pass = NoPass

ScaleDownNext == scaleDownControlPlane

ScaleDownSpec == ScaleDownInit /\ [][ScaleDownNext]_vars

\* Machines as a scale-up pass tells them apart: failure domain, and the
\* condition reported or not
ScaleUpMachines ==
    {[NewMachine(0, fd, "scaleUp") EXCEPT !.agentHealthy = h] :
        fd \in FailureDomains, h \in {"True", "Absent"}}

\* scale-up called on any non-empty cached view that agrees with the store,
\* with any desired replica count above the observed one
ScaleUpInit ==
    /\ cache \in ViewsOf(ScaleUpMachines)
    /\ Len_(cache) > 0
    /\ machines = cache
    /\ infras = DOMAIN cache
    /\ bootstraps = DOMAIN cache
    /\ desired \in (Len_(cache) + 1)..(MaxView + 1)
    /\ nextId = 1 + Cardinality({n \in ViewIds : \E k \in DOMAIN cache : n <= k})
    /\ env = 0
    /\ last = Idle
    /\ pass = NoPass

ScaleUpNext ==
    \/ pass.pc = "none" /\ last.op = "none" /\ scaleUpControlPlane
    \/ nextCall
    \/ Meanwhile

ScaleUpSpec == ScaleUpInit /\ [][ScaleUpNext]_vars

(* -------------------------- VersionTranslator ------------------------- *)
\* a string is the sequence of its characters
Digits == {"0", "1", "2", "3", "4", "5", "6", "7", "8", "9"}

\* scale.go:349, v(\d\.\d{2}\.\d)\+rke2r\d, one element per character it
\* matches; "\\d" is the class of the digits
regexStr ==
    <<"v", "\\d", ".", "\\d", "\\d", ".", "\\d", "+", "r", "k", "e", "2", "r", "\\d">>

\* the parenthesised group of regexStr: from its 2nd to its 7th character
GroupFirst == 2
GroupLast == 7

\* the regular expression matches the string at position i
MatchAt(str, i) ==
    /\ i + Len(regexStr) - 1 <= Len(str)
    /\ \A k \in 1..Len(regexStr) :
          IF regexStr[k] = "\\d"
          THEN str[i + k - 1] \in Digits
          ELSE str[i + k - 1] = regexStr[k]

\* regexp.ReplaceAll(str, "$1") from position i on: every match, leftmost
\* first and not overlapping, is replaced by its group
RECURSIVE ReplaceAll(_, _)
ReplaceAll(str, i) ==
    IF i > Len(str) THEN <<>>
    ELSE IF MatchAt(str, i)
    THEN SubSeq(str, i + GroupFirst - 1, i + GroupLast - 1)
            \o ReplaceAll(str, i + Len(regexStr))
    ELSE <<str[i]>> \o ReplaceAll(str, i + 1)

\* scale.go rke2ToKubeVersion: (kubeVersion, err); the expression compiles,
\* so err is nil
rke2ToKubeVersion(rk2Version) ==
    [kubeVersion |-> ReplaceAll(rk2Version, 1), err |-> "nil"]

\* version strings handed to the translator: an optional stray prefix, an
\* optional "v", three numbers, and one of the endings
Majors == {<<"1">>, <<"1", "0">>}
Minors == {<<"2", "3">>, <<"9">>, <<"1", "0", "0">>}
Patches == {<<"4">>, <<"1", "0">>}
Endings ==
    {<<>>,
     <<"+", "r", "k", "e", "2", "r", "1">>,
     <<"+", "r", "k", "e", "2", "r", "1", "2">>,
     <<"+", "k", "3", "s", "1">>,
     <<"-", "r", "k", "e", "2", "r", "1">>}
VersionStrings ==
    {pre \o lead \o major \o <<".">> \o minor \o <<".">> \o patch \o ending :
        pre \in {<<>>, <<"x">>}, lead \in {<<>>, <<"v">>},
        major \in Majors, minor \in Minors, patch \in Patches, ending \in Endings}

\* the translator called on one version string
VersionInit ==
    /\ machines = EmptyView
    /\ infras = {}
    /\ bootstraps = {}
    /\ cache = EmptyView
    /\ desired = 1
    /\ nextId = 1
    /\ env = 0
    /\ \E str \in VersionStrings :
          last = [op |-> "none", rk2Version |-> str, kubeVersion |-> <<>>,
                  err |-> "nil"]
    /\ pass = NoPass

VersionNext ==
    /\ last.op = "none"
    /\ LET r == rke2ToKubeVersion(last.rk2Version)
       IN  last' = [op |-> "rke2ToKubeVersion", rk2Version |-> last.rk2Version,
                    kubeVersion |-> r.kubeVersion, err |-> r.err]
    /\ UNCHANGED <<machines, infras, bootstraps, cache, desired, nextId, env, pass>>

VersionSpec == VersionInit /\ [][VersionNext]_vars

(* ------------- passes and environment without disturbance ------------- *)
\* every call the worker made to the store so far went through (a delete may
\* have found the object gone), and its uncached read did not fail
OpsSucceeded ==
    /\ last.err # "uncachedReadFailed"
    /\ \A i \in 1..Len(last.ops) : last.ops[i].outcome \in {"ok", "notfound"}
    /\ \A i \in 1..Len(pass.rec.ops) : pass.rec.ops[i].outcome \in {"ok", "notfound"}

\* names in use in the store or in the cache
UsedNames == (DOMAIN machines) \cup infras \cup bootstraps \cup (DOMAIN cache)

\* the Machine with the earliest name of a set: names are handed out in the
\* order of creation
Oldest(names) == CHOOSE n \in names : \A m \in names : n <= m

\* the selector is a pure function of the view: with no Machine outdated, the
\* pass picked the oldest of the Machines the selector allows
PickedByView ==
    last'.candidate # 0 =>
        last'.candidate = Oldest(selectMachineForScaleDown(cache, EmptyView))

\* a step of the worker whose store call succeeds; the name a new attempt
\* gives to what it creates is not in use, and the server configuration is
\* the one the control plane started with
ReconcileOk ==
    /\ Reconcile
    /\ OpsSucceeded'
    /\ last'.serverConfig = DefaultServerConfig
    /\ pass'.rec.serverConfig = DefaultServerConfig
    /\ nextId' # nextId => nextId \notin UsedNames
    /\ PickedByView

\* the cache catches up on Machine n
SyncOf(n) ==
    /\ CacheSync
    /\ (n \in DOMAIN cache') # (n \in DOMAIN cache)
          \/ (n \in DOMAIN cache /\ n \in DOMAIN cache' /\ cache'[n] # cache[n])

\* the requested deletion of Machine n completes
DeletedOf(n) == MachineDeleted /\ n \in DOMAIN machines /\ n \notin DOMAIN machines'

\* Machine n reports its agent healthy
HealthyOf(n) ==
    /\ ReportHealth
    /\ n \in DOMAIN machines
    /\ machines[n].agentHealthy # "True"
    /\ machines'[n].agentHealthy = "True"

\* names.SimpleNameGenerator never runs out: when the next name is in use or
\* past the last one, the generator moves on to the first name not in use
NameReuse ==
    /\ pass.pc = "none"
    /\ nextId > MaxIds \/ nextId \in UsedNames
    /\ \E k \in Ids \ UsedNames :
          /\ \A j \in Ids \ UsedNames : k <= j
          /\ nextId' = k
    /\ UNCHANGED <<machines, infras, bootstraps, cache, desired, env, last, pass>>

\* any number of Machines in the store, none reported healthy yet, the cache
\* lagging on any of them, and any desired replica count
ConvergeInit ==
    /\ machines \in ViewsOf({NewMachine(0, 1, "scaleUp")})
    /\ infras = DOMAIN machines
    /\ bootstraps = DOMAIN machines
    /\ cache \in {Filter(machines, names) : names \in SUBSET (DOMAIN machines)}
    /\ desired \in 1..MaxReplicas
    /\ nextId = 1
    /\ env = 0
    /\ last = Idle
    /\ pass = NoPass

ConvergeNext ==
    \/ ReconcileOk
    \/ \E n \in Ids : SyncOf(n)
    \/ \E n \in Ids : DeletedOf(n)
    \/ \E n \in Ids : HealthyOf(n)
    \/ NameReuse

\* passes are requeued until nothing is left to do, the watch delivers every
\* change of a Machine to the cache, the Machine controller completes every
\* requested deletion and every agent ends up reporting healthy
ConvergeSpec ==
    /\ ConvergeInit
    /\ [][ConvergeNext]_vars
    /\ WF_vars(ReconcileOk)
    /\ WF_vars(NameReuse)
    /\ \A n \in Ids : WF_vars(SyncOf(n)) /\ WF_vars(DeletedOf(n)) /\ WF_vars(HealthyOf(n))

(* ------------- passes with the pick a function of the view ------------ *)
\* the program from construction, the selector picking by the view alone
PickedNext == Next /\ PickedByView

PickedSpec == Init /\ [][PickedNext]_vars

(* ------------------------------ claims -------------------------------- *)
ProvisionOps == {"initialize", "scaleUp"}

\* the latest pass left the store as it found it
StoreUnchanged ==
    /\ machines = last.before.machines
    /\ infras = last.before.infras
    /\ bootstraps = last.before.bootstraps

\* the calls of the latest pass with the given verb and kind
OpsOf(op, kind) ==
    {i \in 1..Len(last.ops) : last.ops[i].op = op /\ last.ops[i].kind = kind}

\* C1: Initialize creates resources only after an uncached read of the owned
\* Machines succeeded and found none; when that read fails or finds one or
\* more, Initialize returns an error and issues no clone and no create.
C1_InitializeGuard ==
    last.op = "initialize" =>
        /\ (last.err = "uncachedReadFailed" \/ Len_(last.before.machines) > 0) =>
              /\ last.err # "nil"
              /\ last.result = "zero"
              /\ last.ops = <<>>
              /\ StoreUnchanged
        /\ last.ops # <<>> =>
              (Len_(last.before.machines) = 0 /\ last.uncached = 0)

\* C1 witness: Initialize ran on an empty cached view while the store held
\* several Machines, and reported that the control plane is already
\* initialized
C1_Witness ==
    /\ last.op = "initialize"
    /\ last.err = "alreadyInitialized"
    /\ last.uncached >= 2
    /\ Len_(cache) = 0
    /\ Len_(machines) = last.uncached

\* the objects of the latest provisioning attempt whose cleanup delete failed
CleanupFailed(kind) ==
    \E i \in OpsOf("delete", kind) : last.ops[i].outcome = "error"

\* C2 as stated: after every provisioning attempt, success means the Member
\* of the attempt exists, and an error means that no infrastructure clone, no
\* bootstrap config and no Member of the attempt is in the store, whichever
\* call failed.
C2_Original ==
    (last.op \in ProvisionOps /\ last.id # 0) =>
        /\ last.err = "nil" => last.id \in DOMAIN machines
        /\ last.err # "nil" =>
              /\ last.id \notin DOMAIN machines
              /\ last.id \notin infras
              /\ last.id \notin bootstraps

\* C2 amended: a successful attempt created exactly one Member; a failed one
\* created none, and an infrastructure clone or bootstrap config of the
\* attempt is left in the store only if the cleanup delete of that very
\* object failed with an error other than not-found.
C2_Amended ==
    (last.op \in ProvisionOps /\ last.id # 0) =>
        /\ last.err = "nil" =>
              /\ last.id \notin DOMAIN last.before.machines
              /\ (DOMAIN machines) \ (DOMAIN last.before.machines) = {last.id}
        /\ last.err # "nil" =>
              /\ DOMAIN machines \subseteq DOMAIN last.before.machines
              /\ infras \subseteq last.before.infras \cup {last.id}
              /\ bootstraps \subseteq last.before.bootstraps \cup {last.id}
              /\ last.id \in infras => CleanupFailed("infra")
              /\ last.id \in bootstraps => CleanupFailed("bootstrap")

\* C2 witness: the Member create failed after both children were created,
\* both cleanup deletes went through, and nothing of the attempt is left
C2_Witness ==
    /\ last.op \in ProvisionOps
    /\ last.err = "provision"
    /\ \E i \in OpsOf("create", "machine") : last.ops[i].outcome = "error"
    /\ OpsOf("delete", "infra") # {}
    /\ OpsOf("delete", "bootstrap") # {}
    /\ ~CleanupFailed("infra")
    /\ ~CleanupFailed("bootstrap")
    /\ last.id \notin infras \cup bootstraps \cup DOMAIN machines

\* C3: when the clone of the infrastructure template succeeds and the create
\* of the bootstrap config fails, no create of the Member is attempted, the
\* next and last call is a delete of the infrastructure clone, and the
\* attempt returns an error.
C3_BootstrapFailureRollsBack ==
    (/\ last.op \in ProvisionOps
     /\ Len(last.ops) >= 2
     /\ last.ops[1] = [op |-> "clone", kind |-> "infra", name |-> last.id,
                       outcome |-> "ok"]
     /\ last.ops[2] = [op |-> "create", kind |-> "bootstrap", name |-> last.id,
                       outcome |-> "error"]) =>
        /\ OpsOf("create", "machine") = {}
        /\ Len(last.ops) = 3
        /\ last.ops[3].op = "delete"
        /\ last.ops[3].kind = "infra"
        /\ last.ops[3].name = last.id
        /\ last.err # "nil"
        /\ last.result = "zero"

\* C3 witness: the bootstrap config could not be created and the clone was
\* deleted again
C3_Witness ==
    /\ last.op = "scaleUp"
    /\ Len(last.ops) = 3
    /\ last.ops[2].kind = "bootstrap"
    /\ last.ops[2].outcome = "error"
    /\ last.ops[3] = [op |-> "delete", kind |-> "infra", name |-> last.id,
                      outcome |-> "ok"]
    /\ last.id \notin infras

\* names of the Machines of a view with the delete annotation
Annotated(view) == {n \in DOMAIN view : view[n].annotated}

\* C4: the Machine selected for scale-down belongs to the first non-empty set
\* among the outdated annotated Machines, the annotated Machines, the
\* outdated Machines and all Machines of the view.
C4_SelectorPrecedence ==
    (last.op = "select" /\ Len_(cache) > 0) =>
        LET both == Annotated(cache) \cap last.outdated
        IN  /\ last.err = "nil"
            /\ last.candidate \in DOMAIN cache
            /\ both # {} => last.candidate \in both
            /\ (both = {} /\ Annotated(cache) # {}) =>
                   last.candidate \in Annotated(cache)
            /\ (Annotated(cache) = {} /\ last.outdated # {}) =>
                   last.candidate \in last.outdated

\* C4 witness: the one Machine that is outdated and annotated sits alone in
\* its failure domain, two other Machines (one annotated, one outdated) share
\* the other domain, and it is the one selected
C4_Witness ==
    /\ last.op = "select"
    /\ Len_(cache) = 3
    /\ Annotated(cache) \cap last.outdated = {last.candidate}
    /\ Cardinality(Annotated(cache)) = 2
    /\ Cardinality(last.outdated) = 2
    /\ \A n \in DOMAIN cache \ {last.candidate} : cache[n].fd # cache[last.candidate].fd

\* the Machines of the view the gate looks at one by one
Evaluated == (DOMAIN cache) \ last.excluded

\* the Machines of the view that fail a required condition
Unhealthy ==
    {n \in DOMAIN cache :
        \E c \in allMachineHealthConditions : conditions_Get(cache[n], c) # "True"}

Deleting == {n \in DOMAIN cache : cache[n].deleting}

GateRan == last.op = "preflight"

\* C5: with an exclusion set, a required condition that is false, unknown or
\* absent on an excluded Machine is not counted: when no Machine has a
\* deletion timestamp and every other Machine has the condition true, the
\* gate passes.
C5_ExcludedHealthIgnored ==
    (GateRan /\ Deleting = {} /\ Unhealthy \cap Evaluated = {}) =>
        (last.preflight = "zero" /\ last.err = "nil")

\* C5 witness: the only unhealthy Machine of a view of several is excluded,
\* and the gate passed
C5_Witness ==
    /\ GateRan
    /\ Len_(cache) >= 2
    /\ Deleting = {}
    /\ Unhealthy # {}
    /\ Unhealthy \subseteq last.excluded
    /\ last.preflight = "zero"

\* C6 as stated: when the excluded candidate is the only Machine with a
\* deletion timestamp and every other Machine is healthy, the gate passes.
C6_Original ==
    (/\ GateRan
     /\ Deleting # {}
     /\ Deleting \subseteq last.excluded
     /\ Unhealthy \cap Evaluated = {}) => last.preflight = "zero"

\* C6 amended: exclusion covers the health evaluation only; a deletion
\* timestamp on any Machine of the view, excluded or not, makes the gate
\* return the deleteRequeueAfter result.
C6_Amended ==
    (GateRan /\ Deleting # {}) =>
        (last.preflight = "deleteRequeueAfter" /\ last.err = "nil")

\* C6 witness: the excluded candidate is the only deleting Machine, every
\* other Machine is healthy, and the gate asks to wait for the deletion
C6_Witness ==
    /\ GateRan
    /\ Len_(cache) >= 2
    /\ Cardinality(Deleting) = 1
    /\ Deleting = last.excluded
    /\ Unhealthy \cap Evaluated = {}
    /\ last.preflight = "deleteRequeueAfter"

\* C7: when a non-excluded Machine has a deletion timestamp the gate returns
\* deleteRequeueAfter and no error, also when Machines are unhealthy.
C7_DeletionFirst ==
    (GateRan /\ Deleting \cap Evaluated # {}) =>
        /\ last.preflight = "deleteRequeueAfter"
        /\ last.result = "deleteRequeueAfter"
        /\ last.err = "nil"

\* C7 witness: a non-excluded Machine is deleting, another non-excluded one is
\* unhealthy, and the gate answers deleteRequeueAfter
C7_Witness ==
    /\ GateRan
    /\ Deleting \cap Evaluated # {}
    /\ (Unhealthy \cap Evaluated) \ Deleting # {}
    /\ last.preflight = "deleteRequeueAfter"

\* C8: on a non-empty view without deletion timestamps the gate returns
\* preflightFailedRequeueAfter and no error exactly when a non-excluded
\* Machine has a required condition false, unknown or absent, and the empty
\* result otherwise.
C8_HealthDecides ==
    (GateRan /\ Len_(cache) > 0 /\ Deleting = {}) =>
        /\ last.err = "nil"
        /\ (\E n \in Evaluated : cache[n].agentHealthy \in {"False", "Unknown", "Absent"})
              <=> last.preflight = "preflightFailedRequeueAfter"
        /\ (\A n \in Evaluated : cache[n].agentHealthy = "True")
              <=> last.preflight = "zero"

\* C8 witness: the only fault of the view is a Machine without the condition,
\* and the gate answers preflightFailedRequeueAfter
C8_Witness ==
    /\ GateRan
    /\ Deleting = {}
    /\ \E n \in Evaluated : cache[n].agentHealthy = "Absent"
    /\ \A n \in Evaluated : cache[n].agentHealthy \in {"True", "Absent"}
    /\ last.preflight = "preflightFailedRequeueAfter"

\* C9: on an empty view the gate passes for every exclusion set: the empty
\* result, no backoff, no error.
C9_EmptyViewPasses ==
    (GateRan /\ Len_(cache) = 0) =>
        (last.preflight = "zero" /\ last.result = "zero" /\ last.err = "nil")

\* C9 witness: the gate ran on an empty view with a non-empty exclusion set
C9_Witness ==
    /\ GateRan
    /\ Len_(cache) = 0
    /\ last.excluded # {}
    /\ last.preflight = "zero"

\* C10: when the gate fails in scale-up or scale-down, the pass returns the
\* gate's result with no error, makes no call to the store and leaves
\* Machines, infrastructure clones and bootstrap configs as they were.
C10_GateFailureIsInert ==
    LET excludeFor == IF last.op = "scaleDown" THEN {last.candidate} ELSE {}
        pf == preflightChecks(last.view, excludeFor)
    IN  (/\ last.op \in {"scaleUp", "scaleDown"}
         /\ last.err # "selectFailed"
         /\ pf.result # "zero") =>
            /\ last.result = pf.result
            /\ last.err = "nil"
            /\ last.ops = <<>>
            /\ StoreUnchanged

\* C10 witness: a scale-down stopped at the gate because a Machine other than
\* the candidate is unhealthy
C10_Witness ==
    /\ last.op = "scaleDown"
    /\ last.candidate \in DOMAIN cache
    /\ last.preflight = "preflightFailedRequeueAfter"
    /\ last.result = "preflightFailedRequeueAfter"
    /\ last.ops = <<>>

\* the answer of the store to the delete of the scale-down candidate
CandidateDelete ==
    {last.ops[i].outcome : i \in OpsOf("delete", "machine")}

\* C11: once the gate has passed, scale-down deletes the candidate; a
\* not-found answer counts as success (no error, requeue requested, the same
\* as a delete that went through), any other error is returned with no
\* requeue requested.
C11_NotFoundIsSuccess ==
    (last.op = "scaleDown" /\ last.candidate # 0 /\ last.preflight = "zero") =>
        /\ Cardinality(CandidateDelete) = 1
        /\ last.ops[1].name = last.candidate
        /\ CandidateDelete \subseteq {"ok", "notfound"} =>
              (last.err = "nil" /\ last.result = "requeue")
        /\ CandidateDelete = {"notfound"} => StoreUnchanged
        /\ CandidateDelete = {"error"} =>
              (last.err = "deleteFailed" /\ last.result = "zero" /\ StoreUnchanged)

\* C11 witness: the candidate of the cached view was gone from the store, the
\* delete answered not-found and the pass asked for a requeue
C11_Witness ==
    /\ last.op = "scaleDown"
    /\ last.candidate \in DOMAIN cache
    /\ last.candidate \notin DOMAIN machines
    /\ CandidateDelete = {"notfound"}
    /\ last.err = "nil"
    /\ last.result = "requeue"

\* the Machines of the store that Initialize created
InitializeCreated == {n \in DOMAIN machines : machines[n].origin = "initialize"}

\* C12: with serialized passes and a cached view that may lag the store in any
\* way, the store never holds two Machines created by Initialize at once.
C12_SingleInitialization == Cardinality(InitializeCreated) <= 1

\* C12 witness: Initialize ran again on a cached view that was still empty
\* while the store held the Machine of the first Initialize, and was refused
C12_Witness ==
    /\ last.op = "initialize"
    /\ last.err = "alreadyInitialized"
    /\ Len_(cache) = 0
    /\ Cardinality(InitializeCreated) = 1
    /\ last.ops = <<>>

\* the Machines of the store without a deletion timestamp
Live == {n \in DOMAIN machines : ~machines[n].deleting}

\* C13: with fair passes, every store call succeeding, the cache catching up,
\* deletions completing, agents reporting healthy and nobody else changing
\* anything, the number of Machines without a deletion timestamp eventually
\* equals the desired replica count and stays equal to it.
C13_Convergence == <>[](Cardinality(Live) = desired)

\* C13 witness: a scale-down on desired + 1 Machines deleted one of them and
\* the Machines without a deletion timestamp are as many as desired
C13_Witness ==
    /\ last.op = "scaleDown"
    /\ CandidateDelete = {"ok"}
    /\ Len_(machines) = desired + 1
    /\ Cardinality(Live) = desired

\* the Machines of the view of the latest pass in a failure domain
Population(fd) == Len_(MachinesInFailureDomain(last.view, fd))

\* C14: a scale-up pass whose gate passed makes one provisioning attempt and
\* creates at most one Machine, however many are missing, and the failure
\* domain it gives to the Machine is a least populated one of the configured
\* domains.
C14_OneAttemptLeastPopulated ==
    (last.op = "scaleUp" /\ last.preflight = "zero") =>
        /\ Cardinality(OpsOf("clone", "infra")) = 1
        /\ Cardinality(OpsOf("create", "bootstrap")) <= 1
        /\ Cardinality(OpsOf("create", "machine")) <= 1
        /\ (DOMAIN machines) \ (DOMAIN last.before.machines) \subseteq {last.id}
        /\ last.fd \in FailureDomains
        /\ \A g \in FailureDomains : Population(last.fd) <= Population(g)
        /\ last.err = "nil" =>
              (last.id \in DOMAIN machines /\ machines[last.id].fd = last.fd)

\* C14 witness: two or more Machines were missing, the domains were unevenly
\* populated, and the pass created one Machine in a least populated domain
C14_Witness ==
    /\ last.op = "scaleUp"
    /\ last.preflight = "zero"
    /\ last.err = "nil"
    /\ desired - Len_(last.view) >= 2
    /\ \E g \in FailureDomains : Population(g) > Population(last.fd)
    /\ (DOMAIN machines) \ (DOMAIN last.before.machines) = {last.id}
    /\ machines[last.id].fd = last.fd

\* C15: when the selector finds no Machine (the view is empty, so every
\* fallback is), scale-down returns an error, calls neither the gate nor the
\* store, and deletes nothing.
C15_EmptySelectionFails ==
    (last.op = "scaleDown" /\ selectMachineForScaleDown(cache, EmptyView) = {}) =>
        /\ last.err = "selectFailed"
        /\ last.result = "zero"
        /\ last.candidate = 0
        /\ last.preflight = "notRun"
        /\ last.excluded = {}
        /\ last.ops = <<>>
        /\ StoreUnchanged

\* C15 witness: scale-down ran on an empty view while the store held
\* Machines, failed to select and left them alone
C15_Witness ==
    /\ last.op = "scaleDown"
    /\ Len_(cache) = 0
    /\ Len_(machines) >= 2
    /\ last.err = "selectFailed"
    /\ last.preflight = "notRun"
    /\ Live = DOMAIN machines

\* the first call of the latest provisioning attempt with the given answer
FirstFailure ==
    {i \in 1..Len(last.ops) :
        /\ last.ops[i].op \in {"clone", "create"}
        /\ last.ops[i].outcome = "error"}

\* C16: when the clone of the infrastructure template fails, the attempt
\* returns that error at once: no create of a bootstrap config or a Machine
\* and no cleanup delete is issued.
C16_CloneFailureReturns ==
    (/\ last.op \in ProvisionOps
     /\ Len(last.ops) >= 1
     /\ last.ops[1].op = "clone"
     /\ last.ops[1].outcome = "error") =>
        /\ Len(last.ops) = 1
        /\ last.errs = <<"failed to clone infrastructure template">>
        /\ last.err = "provision"
        /\ last.result = "zero"
        /\ StoreUnchanged

\* C16 witness: a scale-up whose clone failed while the store held Machines
C16_Witness ==
    /\ last.op = "scaleUp"
    /\ last.ops = <<[op |-> "clone", kind |-> "infra", name |-> last.id,
                     outcome |-> "error"]>>
    /\ last.err = "provision"
    /\ Len_(machines) >= 1

\* the error a failed call contributes to the error set of the attempt
CreationError(o) ==
    IF o.op = "clone" THEN "failed to clone infrastructure template"
    ELSE IF o.kind = "bootstrap" THEN "failed to generate bootstrap config"
    ELSE "failed to create Machine"

\* C17: the error set of a failed provisioning attempt starts with the
\* failure of the clone or create that failed, and holds a cleanup failure
\* exactly when a cleanup delete failed with an error other than not-found.
C17_ErrorsAggregated ==
    (last.op \in ProvisionOps /\ last.err = "provision") =>
        /\ Cardinality(FirstFailure) = 1
        /\ \A i \in FirstFailure : last.errs[1] = CreationError(last.ops[i])
        /\ (\E k \in 1..Len(last.errs) :
               last.errs[k] = "failed to cleanup generated resources")
              <=> (CleanupFailed("infra") \/ CleanupFailed("bootstrap"))
        /\ Len(last.errs) =
              IF CleanupFailed("infra") \/ CleanupFailed("bootstrap") THEN 2 ELSE 1

\* C17 witness: the Machine create failed, the delete of the clone answered
\* not-found and the delete of the bootstrap config went through: the error
\* set holds the creation failure alone
C17_Witness ==
    /\ last.op \in ProvisionOps
    /\ last.errs = <<"failed to create Machine">>
    /\ \E i \in OpsOf("delete", "infra") : last.ops[i].outcome = "notfound"
    /\ \E i \in OpsOf("delete", "bootstrap") : last.ops[i].outcome = "ok"

\* a non-empty string of digits
IsNumber(str) == Len(str) >= 1 /\ \A k \in 1..Len(str) : str[k] \in Digits

\* v<major>.<minor>.<patch>
IsKubeVersion(str) ==
    \E i, j \in 1..Len(str) :
        /\ str[1] = "v"
        /\ i < j
        /\ str[i] = "."
        /\ str[j] = "."
        /\ IsNumber(SubSeq(str, 2, i - 1))
        /\ IsNumber(SubSeq(str, i + 1, j - 1))
        /\ IsNumber(SubSeq(str, j + 1, Len(str)))

\* the string holds +rke2r<digit> at position i
SuffixAt(str, i) ==
    /\ i + 6 <= Len(str)
    /\ SubSeq(str, i, i + 5) = <<"+", "r", "k", "e", "2", "r">>
    /\ str[i + 6] \in Digits

\* C18: the translator returns v<major>.<minor>.<patch> for every input
\* v<major>.<minor>.<patch>+rke2r<N>, returns an input without the suffix
\* +rke2r<N> unchanged, and never returns an error.
C18_VersionTranslated ==
    last.op = "rke2ToKubeVersion" =>
        /\ last.err = "nil"
        /\ \A i \in 1..Len(last.rk2Version) :
              (/\ SuffixAt(last.rk2Version, i)
               /\ IsKubeVersion(SubSeq(last.rk2Version, 1, i - 1))
               /\ IsNumber(SubSeq(last.rk2Version, i + 6, Len(last.rk2Version))))
                 => last.kubeVersion = SubSeq(last.rk2Version, 1, i - 1)
        /\ (\A i \in 1..Len(last.rk2Version) : ~SuffixAt(last.rk2Version, i))
              => last.kubeVersion = last.rk2Version

\* the latest pass created a Machine
MachineCreated ==
    /\ last.op \in ProvisionOps
    /\ \E i \in OpsOf("create", "machine") : last.ops[i].outcome = "ok"

\* the serializations of the server configurations
Payloads == {"{}", "{\"tlsSan\":[\"cp.local\"]}"}

\* C19: a Machine the provisioner created carries the annotation of the server
\* configuration; read from the store, its value is the serialization of the
\* server configuration the pass was given, and it stays a serialization
\* while the Machine is annotated for deletion, reports health and is cached.
C19_AnnotationRoundTrip ==
    /\ MachineCreated =>
          /\ last.id \in DOMAIN machines
          /\ machines[last.id].serverConfiguration = json_Marshal(last.serverConfig)
          /\ machines[last.id].serverConfiguration \in Payloads
    /\ \A n \in DOMAIN machines :
          machines[n].origin \in ProvisionOps =>
              machines[n].serverConfiguration \in Payloads
    /\ \A n \in DOMAIN cache :
          cache[n].origin \in ProvisionOps =>
              cache[n].serverConfiguration \in Payloads

\* C19 witness: a pass given a server configuration with a name in tlsSan
\* created a Machine next to one created under the empty configuration, and
\* each carries the serialization of its own
C19_Witness ==
    /\ MachineCreated
    /\ last.serverConfig # DefaultServerConfig
    /\ machines[last.id].serverConfiguration = "{\"tlsSan\":[\"cp.local\"]}"
    /\ \E n \in DOMAIN machines :
          /\ machines[n].origin \in ProvisionOps
          /\ machines[n].annotated
          /\ machines[n].serverConfiguration = "{}"

\* the latest pass was a scale-down that put the deletion timestamp on a
\* Machine of the store that had none
ScaledDown ==
    /\ last.op = "scaleDown"
    /\ CandidateDelete = {"ok"}
    /\ last.candidate \in DOMAIN last.before.machines
    /\ ~last.before.machines[last.candidate].deleting

\* C20: whatever the cache shows and whoever annotates Machines or reports
\* their health in between, a scale-down pass that deletes a Machine leaves
\* at least as many Machines without a deletion timestamp in the store as
\* the desired replica count.
C20_ScaleDownKeepsDesired ==
    ScaledDown => Cardinality(Live) >= desired

\* C21: whatever the cache shows of the Machines earlier passes created, a
\* scale-up pass that creates a Machine leaves no more Machines in the store
\* than the desired replica count.
C21_ScaleUpKeepsDesired ==
    (last.op = "scaleUp" /\ MachineCreated) => Len_(machines) <= desired

\* the latest provisioning attempt created both children and then failed to
\* create the Machine
MachineCreateFailed ==
    /\ last.op \in ProvisionOps
    /\ \E i \in OpsOf("create", "machine") : last.ops[i].outcome = "error"

\* C22: when the create of the Machine fails after the infrastructure clone
\* and the bootstrap config were created, cleanup issues one delete for the
\* clone and then one for the bootstrap config, whatever the store answered
\* to the first.
C22_CleanupDeletesBoth ==
    MachineCreateFailed =>
        /\ Cardinality(OpsOf("delete", "infra")) = 1
        /\ Cardinality(OpsOf("delete", "bootstrap")) = 1
        /\ \A i \in OpsOf("delete", "infra"), j \in OpsOf("delete", "bootstrap") :
              /\ last.ops[i].name = last.id
              /\ last.ops[j].name = last.id
              /\ i < j
              /\ \A k \in OpsOf("create", "machine") : k < i
              /\ last.ops[j].outcome # "error" => last.id \notin bootstraps

\* C22 witness: the create of the Machine failed, the delete of the clone
\* failed, and the delete of the bootstrap config was issued and went through
C22_Witness ==
    /\ MachineCreateFailed
    /\ \E i \in OpsOf("delete", "infra") : last.ops[i].outcome = "error"
    /\ \E j \in OpsOf("delete", "bootstrap") : last.ops[j].outcome = "ok"
    /\ last.id \in infras
    /\ last.id \notin bootstraps

\* the latest pass was a provisioning attempt that called the store
Attempted == last.op \in ProvisionOps /\ last.ops # <<>>

\* C23: a provisioning attempt calls the store in the order clone of the
\* infrastructure template, create of the bootstrap config, create of the
\* Machine, each only after the one before went through; the Machine it
\* creates references the clone and the bootstrap config of the attempt,
\* both in the store; an attempt without an error issues no delete.
C23_ProvisioningOrder ==
    Attempted =>
        /\ last.ops[1].op = "clone" /\ last.ops[1].kind = "infra"
        /\ Cardinality(OpsOf("clone", "infra")) = 1
        /\ \A i \in OpsOf("create", "bootstrap") :
              i = 2 /\ last.ops[1].outcome = "ok"
        /\ \A i \in OpsOf("create", "machine") :
              /\ i = 3
              /\ last.ops[1].outcome = "ok"
              /\ last.ops[2].op = "create" /\ last.ops[2].kind = "bootstrap"
              /\ last.ops[2].outcome = "ok"
        /\ MachineCreated =>
              /\ machines[last.id].infraRef = last.ops[1].name
              /\ machines[last.id].bootstrapRef = last.ops[2].name
              /\ machines[last.id].infraRef \in infras \ last.before.infras
              /\ machines[last.id].bootstrapRef \in bootstraps \ last.before.bootstraps
        /\ last.err = "nil" =>
              /\ Len(last.ops) = 3
              /\ \A i \in 1..Len(last.ops) : last.ops[i].op # "delete"
              /\ MachineCreated

\* C23 witness: a scale-up next to Machines already in the store made its
\* three calls in order and the Machine references its two new children
C23_Witness ==
    /\ last.op = "scaleUp"
    /\ last.err = "nil"
    /\ Len(last.ops) = 3
    /\ Len_(last.before.machines) >= 2
    /\ last.id \in DOMAIN machines
    /\ machines[last.id].infraRef \in infras \ last.before.infras
    /\ machines[last.id].bootstrapRef \in bootstraps \ last.before.bootstraps

\* the passes of the three handlers
HandlerOps == {"initialize", "scaleUp", "scaleDown"}

\* the two fixed backoffs of the gate
Backoffs == {"deleteRequeueAfter", "preflightFailedRequeueAfter"}

\* the latest pass made its three creates, or its delete, without a failure
Completed ==
    \/ /\ last.op \in ProvisionOps
       /\ Len(last.ops) = 3
       /\ \A i \in 1..3 : last.ops[i].outcome = "ok"
       /\ MachineCreated
    \/ /\ last.op = "scaleDown"
       /\ CandidateDelete # {}
       /\ CandidateDelete \subseteq {"ok", "notfound"}

\* C24: a pass of Initialize, scale-up or scale-down returns an error with
\* the empty result, or no error with an immediate requeue, or no error with
\* one of the two backoffs; the immediate requeue is returned exactly when
\* the pass completed its creates or its delete, a not-found delete included.
C24_OutcomeShapes ==
    last.op \in HandlerOps =>
        /\ \/ last.err # "nil" /\ last.result = "zero"
           \/ last.err = "nil" /\ last.result = "requeue"
           \/ last.err = "nil" /\ last.result \in Backoffs
        /\ last.result = "requeue" <=> Completed

\* C24 witness: a scale-down whose candidate was already gone from the store
\* returned an immediate requeue and no error
C24_Witness ==
    /\ last.op = "scaleDown"
    /\ CandidateDelete = {"notfound"}
    /\ last.candidate \notin DOMAIN machines
    /\ last.result = "requeue"
    /\ last.err = "nil"
    /\ StoreUnchanged

\* the Machines the selector may return on the current view, for some set of
\* outdated Machines
Selectable ==
    UNION {selectMachineForScaleDown(cache, Filter(cache, outdatedNames)) :
              outdatedNames \in SUBSET (DOMAIN cache)}

\* C25: a scale-down pass makes at most one call to the store, the delete of
\* the candidate the selector returned; every other Machine, every
\* infrastructure clone and every bootstrap config is as the pass found it,
\* and the candidate itself changes by its deletion timestamp only.
C25_ScaleDownFrame ==
    last.op = "scaleDown" =>
        /\ Len(last.ops) <= 1
        /\ \A i \in 1..Len(last.ops) :
              /\ last.ops[i].op = "delete"
              /\ last.ops[i].kind = "machine"
              /\ last.ops[i].name = last.candidate
              /\ last.candidate \in Selectable
        /\ infras = last.before.infras
        /\ bootstraps = last.before.bootstraps
        /\ DOMAIN machines = DOMAIN last.before.machines
        /\ \A n \in DOMAIN machines :
              IF n = last.candidate /\ CandidateDelete = {"ok"}
              THEN machines[n] = [last.before.machines[n] EXCEPT !.deleting = TRUE]
              ELSE machines[n] = last.before.machines[n]

\* C25 witness: with several Machines the selector may return and three in
\* the store, the pass deleted its candidate and nothing else
C25_Witness ==
    /\ last.op = "scaleDown"
    /\ CandidateDelete = {"ok"}
    /\ Cardinality(Selectable) >= 2
    /\ Len_(machines) >= 3
    /\ ~last.before.machines[last.candidate].deleting
    /\ machines[last.candidate].deleting
    /\ \A n \in (DOMAIN machines) \ {last.candidate} :
          machines[n] = last.before.machines[n]

====
